---- MODULE Spec2Model ----
(***************************************************************************)
(* Model of duml-beagle-parse (src/src/parse.ts): the per-direction        *)
(* reassembly of hex chunks into DUML packets (parseCSV, processBuffer)    *)
(* and the request/response pairing (pairPackets).                         *)
(*                                                                         *)
(* Strings are sequences of one-character strings; indices of the helper   *)
(* operators are 0-based like the JavaScript methods they model.           *)
(***************************************************************************)
EXTENDS Integers, Sequences, FiniteSets, TLC

VARIABLES
    \* parseCSV
    rxCurrentHexString, txCurrentHexString, results, processed, skipped, phase,
    \* pairPackets
    parsedPackets, pairedPackets, unpairedPackets, singularPackets, pairPc,
    \* the byte string whose chunkings are compared, and what is left to feed
    whole, pending,
    \* whether the codec refuses a buffer that does not start with the sync byte
    codecChecksSync,
    \* whether the codec holds a packet valid only if it declares the length of
    \* the text it was decoded from
    codecChecksLength,
    \* the last record handled and the state it met
    call,
    \* per direction, the run over the chunks of that direction alone
    solo,
    \* one call of processBuffer, pass by pass
    loop

parseVars == <<rxCurrentHexString, txCurrentHexString, results, processed, skipped, phase>>
pairVars == <<parsedPackets, pairedPackets, unpairedPackets, singularPackets, pairPc>>
splitVars == <<whole, pending>>
traceVars == <<call, solo>>
codecVars == <<codecChecksSync, codecChecksLength>>
vars == <<parseVars, pairVars, splitVars, codecVars, traceVars, loop>>

\* ---------------------------------------------------------------- bounds

\* Longest input of pairPackets.
MaxPackets == 4
\* Most rows of one trace.
MaxRows == 3
\* Most frames of the byte string whose chunkings are compared.
MaxFrames == 2
\* Most passes followed through the loop of one call of processBuffer.
MaxPasses == 4

\* ------------------------------------------------- JavaScript strings

Min(S) == CHOOSE x \in S : \A y \in S : x <= y
Max(S) == CHOOSE x \in S : \A y \in S : x >= y

\* s.slice(start)
Slice(s, start) == SubSeq(s, start + 1, Len(s))

\* s.slice(0, end)
SliceTo(s, end) == SubSeq(s, 1, IF end < Len(s) THEN end ELSE Len(s))

\* s.startsWith(pat)
StartsWith(s, pat) == Len(s) >= Len(pat) /\ SubSeq(s, 1, Len(pat)) = pat

\* s.indexOf(pat): the first 0-based offset at which pat occurs, -1 if none
IndexOf(s, pat) ==
    LET hits == {i \in 0..(Len(s) - Len(pat)) : SubSeq(s, i + 1, i + Len(pat)) = pat}
    IN IF hits = {} THEN -1 ELSE Min(hits)

\* s.includes(pat)
Includes(s, pat) == IndexOf(s, pat) # -1

\* s.replace(/\s+/g, "")
StripWhitespace(s) == SelectSeq(s, LAMBDA c : c # " ")

\* ------------------------------------------------ the packet codec
\*
\* The codec is the external package duml-packet. Its frames are modelled
\* at a reduced size: the sync byte, one byte with the length of the frame, the
\* payload, one checksum byte. Decoding fails on fewer than MinPacketBytes
\* bytes; whether it also fails without a leading sync byte is not known of
\* the package and is fixed per run (codecChecksSync). Any other buffer
\* decodes into a packet, which is valid when it starts with the sync byte
\* and its checksum fits; whether a valid packet must also declare the
\* length of the buffer it was decoded from is not known of the package
\* either and is fixed per run (codecChecksLength).

HexDigits == <<"0", "1", "2", "3", "4", "5", "6", "7", "8", "9", "A", "B", "C", "D", "E", "F">>

HexVal(c) == (CHOOSE i \in DOMAIN HexDigits : HexDigits[i] = c) - 1

HexByte(n) == <<HexDigits[((n \div 16) % 16) + 1], HexDigits[(n % 16) + 1]>>

\* The synchronization byte, as hex text.
Sync == <<"5", "5">>

\* The fewest bytes the codec decodes: sync, length, checksum.
MinPacketBytes == 3

\* Buffer.from(hex, "hex"): whole bytes only
NumBytes(hex) == Len(hex) \div 2

\* The i-th byte (0-based) of a hex text.
ByteAt(hex, i) == 16 * HexVal(hex[2 * i + 1]) + HexVal(hex[2 * i + 2])

RECURSIVE DigitSum(_)
DigitSum(hex) == IF hex = <<>> THEN 0 ELSE HexVal(hex[1]) + DigitSum(Tail(hex))

\* The checksum byte of the hex text before it.
Checksum(hex) == HexByte(DigitSum(hex) % 256)

\* Packet.fromHexString throws: too few bytes to decode, or no leading sync.
DecodeFails(hex) ==
    NumBytes(hex) < MinPacketBytes \/ (codecChecksSync /\ ~StartsWith(hex, Sync))

\* Packet.fromHexString: the bytes it was given and the length they declare.
FromHexString(hex) ==
    [raw |-> SubSeq(hex, 1, 2 * NumBytes(hex)), length |-> ByteAt(hex, 1)]

\* packet.isValid(): the buffer is exactly the declared frame and its checksum fits.
IsValid(packet) ==
    /\ StartsWith(packet.raw, Sync)
    /\ (codecChecksLength => NumBytes(packet.raw) = packet.length)
    /\ SubSeq(packet.raw, Len(packet.raw) - 1, Len(packet.raw))
           = Checksum(SubSeq(packet.raw, 1, Len(packet.raw) - 2))

\* A valid frame around a payload.
MakeFrame(payload) ==
    LET head == Sync \o HexByte(MinPacketBytes + NumBytes(payload)) \o payload
    IN head \o Checksum(head)

\* ---------------------------------------------------- processBuffer

\* A variant that keeps whatever remains.
LeftOverKeepAll(hexString) == hexString

\* The buffer kept after a packet was taken: a remainder that starts with
\* the sync byte is kept, any other is dropped.
LeftOver(hexString) == IF StartsWith(hexString, Sync) THEN hexString ELSE <<>>

\* Whether an invalid packet is decoded again from its first `length` bytes.
NeedsRedecode(packet, hexString) ==
    ~IsValid(packet) /\ packet.length < Len(hexString) * 2

\* The rest of the text after a packet was taken.
Advance(hexString, packet) == Slice(hexString, packet.length * 2)

\* A variant that leaves the loop after every packet.
LoopStopsAfterOne(packet) == FALSE

\* A variant that goes on after every packet.
LoopAlwaysContinues(packet) == TRUE

\* while (packet?.isValid())
LoopContinues(packet) == IsValid(packet)

\* No packet: the decode threw.
NoPacket == [raw |-> <<>>, length |-> 0]

\* One pass through the body of the do-while loop. acc = [results, buffer,
\* threw]: the packets pushed so far, the buffer as last set through
\* updateBuffer, and whether the decode outside the try block threw. The pass
\* yields the new acc, the local text it leaves and whether the loop goes on,
\* together with the packet of its first decode and whether the second
\* decode was made.
Iteration(hexString, direction, timestamp, acc) ==
    IF DecodeFails(hexString)
    THEN [acc |-> acc, hexString |-> hexString, again |-> FALSE,
          first |-> NoPacket, redecoded |-> FALSE]
    ELSE
        LET first == FromHexString(hexString)
            cut == SliceTo(hexString, first.length * 2)
        IN IF NeedsRedecode(first, hexString) /\ DecodeFails(cut)
           THEN [acc |-> [acc EXCEPT !.threw = TRUE], hexString |-> hexString,
                 again |-> FALSE, first |-> first, redecoded |-> TRUE]
           ELSE
               LET packet == IF NeedsRedecode(first, hexString)
                             THEN FromHexString(cut) ELSE first
                   rest == Advance(hexString, packet)
                   parsedRow == [timestamp |-> timestamp, direction |-> direction,
                                 packet |-> packet]
               IN [acc |-> [results |-> Append(acc.results, parsedRow),
                            buffer |-> LeftOver(rest),
                            threw |-> FALSE],
                   hexString |-> rest,
                   again |-> LoopContinues(packet),
                   first |-> first,
                   redecoded |-> NeedsRedecode(first, hexString)]

\* The do-while loop.
RECURSIVE ProcessLoop(_, _, _, _)
ProcessLoop(hexString, direction, timestamp, acc) ==
    LET it == Iteration(hexString, direction, timestamp, acc)
    IN IF it.again
       THEN ProcessLoop(it.hexString, direction, timestamp, it.acc)
       ELSE it.acc

\* A variant that starts from an emptied buffer.
ProcessBufferForgets(currentHexString, direction, timestamp, res) ==
    ProcessLoop(currentHexString, direction, timestamp,
                [results |-> res, buffer |-> <<>>, threw |-> FALSE])

ProcessBuffer(currentHexString, direction, timestamp, res) ==
    ProcessLoop(currentHexString, direction, timestamp,
                [results |-> res, buffer |-> currentHexString, threw |-> FALSE])

\* --------------------------------------------------------- parseCSV

TokenIN == <<"I", "N">>
TokenOUT == <<"O", "U", "T">>

\* The direction of a row whose token names one.
DirectionOf(token) == IF Includes(token, TokenIN) THEN "RX" ELSE "TX"

\* The chunk as appended: on an empty buffer, from its first 55 on.
SyncTrim(current, hexString) ==
    IF Len(current) = 0 THEN Slice(hexString, IndexOf(hexString, Sync)) ELSE hexString

SkipRow(st) == [st EXCEPT !.skipped = @ + 1]

SetBuffer(st, direction, buffer) ==
    IF direction = "RX" THEN [st EXCEPT !.rx = buffer] ELSE [st EXCEPT !.tx = buffer]

\* The "data" handler. st = [rx, tx, results, processed, skipped, phase];
\* row = [marker, timestamp, token, payload].
OnData(st, row) ==
    IF row.marker # "0" THEN SkipRow(st)
    ELSE IF ~(Includes(row.token, TokenIN) \/ Includes(row.token, TokenOUT)) THEN SkipRow(st)
    ELSE
        LET direction == DirectionOf(row.token)
            hexString == StripWhitespace(row.payload)
            current == IF direction = "RX" THEN st.rx ELSE st.tx
        IN IF Len(hexString) = 0 THEN SkipRow(st)
           ELSE IF Len(current) = 0 /\ IndexOf(hexString, Sync) = -1 THEN SkipRow(st)
           ELSE
               LET buffer == current \o SyncTrim(current, hexString)
               IN IF Len(buffer) = 0 THEN SkipRow(SetBuffer(st, direction, buffer))
                  ELSE
                      LET r == ProcessBuffer(buffer, direction, row.timestamp, st.results)
                          after == [SetBuffer(st, direction, r.buffer)
                                        EXCEPT !.results = r.results]
                      IN IF r.threw THEN [after EXCEPT !.phase = "aborted"]
                         ELSE [after EXCEPT !.processed = @ + 1]

\* Frames and payloads of the traces.
FrameA == MakeFrame(<<>>)
FrameB == MakeFrame(<<"0", "1">>)
FrameC == MakeFrame(<<"5", "5", "0", "2">>)
BadChecksumFrame == Sync \o HexByte(MinPacketBytes) \o <<"0", "0">>
ShortLengthFrame == Sync \o <<"0", "1", "0", "0">>
ZeroLengthFrame == Sync \o <<"0", "0", "0", "0">>
\* Three bytes with a fitting checksum that declare a length of 0.
LengthlessFrame == Sync \o <<"0", "0">> \o Checksum(Sync \o <<"0", "0">>)
Garbage == <<"A", "B">>
\* Three bytes without a sync byte: fewer than the frame they declare.
LongGarbage == <<"A", "B", "0", "4", "0", "1">>

Payloads ==
    { <<"5", "5", " ">> \o Slice(FrameA, 2),
      FrameB,
      SliceTo(FrameB, 6), SliceTo(FrameB, 4), Slice(FrameB, 4),
      FrameA \o FrameB,
      FrameA \o Garbage,
      Garbage \o FrameA,
      Garbage,
      <<"0", "5", "5", "0">>,
      <<" ">>,
      BadChecksumFrame \o FrameA,
      ShortLengthFrame }

Markers == {"0", "1"}
TokenSOF == <<"S", "O", "F">>
Tokens == {TokenIN, TokenOUT, TokenSOF}

\* The records of the traces: every payload in both directions, one record
\* without a direction and one that is no payload record.
Rows ==
    {[marker |-> "0", token |-> t, payload |-> p] : t \in {TokenIN, TokenOUT}, p \in Payloads}
        \cup {[marker |-> "0", token |-> TokenSOF, payload |-> FrameB],
              [marker |-> "1", token |-> TokenIN, payload |-> FrameB]}

StateNow ==
    [rx |-> rxCurrentHexString, tx |-> txCurrentHexString, results |-> results,
     processed |-> processed, skipped |-> skipped, phase |-> phase]

IdleState ==
    [rx |-> <<>>, tx |-> <<>>, results |-> <<>>, processed |-> 0, skipped |-> 0,
     phase |-> "reading"]

Become(st) ==
    /\ rxCurrentHexString' = st.rx
    /\ txCurrentHexString' = st.tx
    /\ results' = st.results
    /\ processed' = st.processed
    /\ skipped' = st.skipped
    /\ phase' = st.phase

\* The direction a record belongs to, "none" for a record that names none.
RowDirection(row) ==
    IF row.marker = "0" /\ (Includes(row.token, TokenIN) \/ Includes(row.token, TokenOUT))
    THEN DirectionOf(row.token) ELSE "none"

\* The run over the chunks of one direction alone, started on empty buffers:
\* s = [buffer, results, phase].
SoloIdle == [buffer |-> <<>>, results |-> <<>>, phase |-> "reading"]

SoloStep(s, direction, row) ==
    IF s.phase # "reading" \/ RowDirection(row) # direction THEN s
    ELSE
        LET after == OnData([IdleState EXCEPT !.rx = IF direction = "RX" THEN s.buffer ELSE <<>>,
                                              !.tx = IF direction = "TX" THEN s.buffer ELSE <<>>,
                                              !.results = s.results],
                            row)
        IN [buffer |-> IF direction = "RX" THEN after.rx ELSE after.tx,
            results |-> after.results,
            phase |-> after.phase]

NoCall ==
    [row |-> [marker |-> "none", timestamp |-> 0, token |-> <<>>, payload |-> <<>>],
     before |-> IdleState]

TraceIdle ==
    /\ call = NoCall
    /\ solo = [rows |-> 0, RX |-> SoloIdle, TX |-> SoloIdle]

LoopIdle == loop = [pc |-> "idle"]

\* The next record of the trace, for the runs over one direction alone.
SoloNext(row) ==
    solo' = [rows |-> solo.rows + 1,
             RX |-> SoloStep(solo.RX, "RX", row),
             TX |-> SoloStep(solo.TX, "TX", row)]

\* One record of the trace reaches the "data" handler; its timestamp is its
\* position in the trace.
Handle(marker, token, payload) ==
    LET row == [marker |-> marker, timestamp |-> solo.rows + 1,
                token |-> token, payload |-> payload]
    IN /\ Become(OnData(StateNow, row))
       /\ call' = [row |-> row, before |-> StateNow]
       /\ SoloNext(row)

Data(marker, token, payload) ==
    /\ phase = "reading"
    /\ solo.rows < MaxRows
    /\ Handle(marker, token, payload)
    /\ UNCHANGED <<pairVars, splitVars, codecVars, loop>>

\* A record that follows the one whose handler threw: the run is over and
\* the record is never handled.
Unread(marker, token, payload) ==
    /\ phase = "aborted"
    /\ solo.rows < MaxRows
    /\ SoloNext([marker |-> marker, timestamp |-> solo.rows + 1,
                 token |-> token, payload |-> payload])
    /\ UNCHANGED <<parseVars, call, pairVars, splitVars, codecVars, loop>>

\* The "end" handler.
End ==
    /\ phase = "reading"
    /\ phase' = "ended"
    /\ UNCHANGED <<rxCurrentHexString, txCurrentHexString, results, processed, skipped,
                   pairVars, splitVars, codecVars, traceVars, loop>>

\* ------------------------------------------------------- pairPackets

\* packet.toShortString(): a rendering of the packet's fields
ToShortString(packet) == <<packet.commandType, packet.ackType, packet.sequenceID>>

\* { timestamp, direction, packet: toShortString() }
PacketData(p) ==
    [timestamp |-> p.timestamp, direction |-> p.direction, packet |-> ToShortString(p.packet)]

MapPacketData(s) == [i \in 1..Len(s) |-> PacketData(s[i])]

IsRequest(p) == p.packet.commandType = 0 /\ p.packet.ackType # 0

IsAck(p) == p.packet.commandType = 1

\* A variant that keeps only the commands among the no-reply packets.
IsSingularCommandOnly(p) == p.packet.commandType = 0 /\ p.packet.ackType = 0

IsSingular(p) == p.packet.ackType = 0

\* parsedPackets.filter(commandType === 0 && ackType !== 0)
RequestPackets(pp) == SelectSeq(pp, IsRequest)

\* parsedPackets.filter(commandType === 1)
AckPackets(pp) == SelectSeq(pp, IsAck)

\* parsedPackets.filter(ackType === 0).map(...)
SingularPackets(pp) == MapPacketData(SelectSeq(pp, IsSingular))

\* A variant of the filter callback that does not compare the directions.
MatchesAnyDirection(p, requestPacket) ==
    p.packet.sequenceID = requestPacket.packet.sequenceID

\* the filter callback of the matching loop
Matches(p, requestPacket) ==
    /\ p.packet.sequenceID = requestPacket.packet.sequenceID
    /\ p.direction # requestPacket.direction

\* The indices the filter callback accepts: filter visits no hole.
MatchingIndices(acks, ackHoles, requestPacket) ==
    {i \in (DOMAIN acks) \ ackHoles : Matches(acks[i], requestPacket)}

\* .at(0) of the filtered array: the first match
MatchingResponseIndex(S) == Min(S)

\* matchedIndex = i runs for every match: the last match's index remains
MatchedIndex(S) == Max(S)

\* The elements of an array that are not holes, in order.
Remaining(arr, holes) ==
    LET keep == {i \in DOMAIN arr : i \notin holes}
        F[i \in 0..Len(arr)] ==
            IF i = 0 THEN <<>>
            ELSE IF i \in keep THEN Append(F[i - 1], arr[i]) ELSE F[i - 1]
    IN F[Len(arr)]

\* requestPackets.forEach: one call of the callback per request, in order.
\* st = [ackHoles, reqHoles, paired, unpaired]
RECURSIVE PairLoop(_, _, _, _)
PairLoop(requests, acks, requestIndex, st) ==
    IF requestIndex > Len(requests) THEN st
    ELSE
        LET requestPacket == requests[requestIndex]
            S == MatchingIndices(acks, st.ackHoles, requestPacket)
            next ==
                IF S # {}
                THEN [ackHoles |-> st.ackHoles \cup {MatchedIndex(S)},
                      reqHoles |-> st.reqHoles \cup {requestIndex},
                      paired |-> Append(st.paired,
                                   [request |-> PacketData(requestPacket),
                                    response |-> PacketData(acks[MatchingResponseIndex(S)])]),
                      unpaired |-> st.unpaired]
                ELSE [st EXCEPT !.unpaired = Append(@, PacketData(requestPacket))]
        IN PairLoop(requests, acks, requestIndex + 1, next)

\* The leftover requests pushed after the loop.
LeftoverRequests(requests, reqHoles) ==
    IF Len(requests) > 0 THEN MapPacketData(Remaining(requests, reqHoles)) ELSE <<>>

\* The leftover responses pushed after the loop.
LeftoverAcks(acks, ackHoles) ==
    IF Len(acks) > 0 THEN MapPacketData(Remaining(acks, ackHoles)) ELSE <<>>

PairPacketsResult(pp) ==
    LET requests == RequestPackets(pp)
        acks == AckPackets(pp)
        st == PairLoop(requests, acks, 1,
                       [ackHoles |-> {}, reqHoles |-> {}, paired |-> <<>>, unpaired |-> <<>>])
    IN [pairedPackets |-> st.paired,
        unpairedPackets |-> st.unpaired \o LeftoverAcks(acks, st.ackHoles)
                               \o LeftoverRequests(requests, st.reqHoles),
        singularPackets |-> SingularPackets(pp)]

Directions == {"RX", "TX"}
CommandTypes == {0, 1}
AckTypes == {0, 1}
SequenceIDs == {7, 8}

DecodedFields == [commandType : CommandTypes, ackType : AckTypes, sequenceID : SequenceIDs]

\* An input of pairPackets: the i-th packet carries timestamp i.
PacketInput(d, f) ==
    [i \in DOMAIN d |-> [timestamp |-> i, direction |-> d[i], packet |-> f[i]]]

PairPackets ==
    /\ pairPc = "start"
    /\ LET r == PairPacketsResult(parsedPackets)
       IN /\ pairedPackets' = r.pairedPackets
          /\ unpairedPackets' = r.unpairedPackets
          /\ singularPackets' = r.singularPackets
    /\ pairPc' = "done"
    /\ UNCHANGED <<parsedPackets, parseVars, splitVars, codecVars, traceVars, loop>>

ParseIdle ==
    /\ rxCurrentHexString = <<>>
    /\ txCurrentHexString = <<>>
    /\ results = <<>>
    /\ processed = 0
    /\ skipped = 0
    /\ phase = "reading"

PairIdle ==
    /\ parsedPackets = <<>>
    /\ pairedPackets = <<>>
    /\ unpairedPackets = <<>>
    /\ singularPackets = <<>>
    /\ pairPc = "idle"

SplitIdle ==
    /\ whole = <<>>
    /\ pending = <<>>

InitPair ==
    /\ \E n \in 0..MaxPackets :
           \E d \in [1..n -> Directions], f \in [1..n -> DecodedFields] :
               parsedPackets = PacketInput(d, f)
    /\ pairedPackets = <<>>
    /\ unpairedPackets = <<>>
    /\ singularPackets = <<>>
    /\ pairPc = "start"
    /\ ParseIdle
    /\ SplitIdle
    /\ codecChecksSync = TRUE
    /\ codecChecksLength = TRUE
    /\ TraceIdle
    /\ LoopIdle

NextPair == PairPackets

SpecPair == InitPair /\ [][NextPair]_vars

Init ==
    /\ ParseIdle
    /\ PairIdle
    /\ SplitIdle
    /\ codecChecksSync \in BOOLEAN
    /\ codecChecksLength \in BOOLEAN
    /\ TraceIdle
    /\ LoopIdle

Next ==
    \/ \E row \in Rows : Data(row.marker, row.token, row.payload)
    \/ \E row \in Rows : Unread(row.marker, row.token, row.payload)
    \/ End

Spec == Init /\ [][Next]_vars

\* ---------------------------------- one byte string, fed in chunks

Frames == {FrameA, FrameB, FrameC}

RECURSIVE FrameStrings(_)
FrameStrings(n) ==
    IF n = 0 THEN {<<>>}
    ELSE {f \o s : f \in Frames, s \in FrameStrings(n - 1)} \cup FrameStrings(n - 1)

\* The next k bytes of the string arrive as one inbound chunk.
FeedChunk(k) ==
    /\ phase = "reading"
    /\ k \in 1..NumBytes(pending)
    /\ Handle("0", TokenIN, SliceTo(pending, 2 * k))
    /\ pending' = Slice(pending, 2 * k)
    /\ UNCHANGED <<whole, pairVars, codecVars, loop>>

InitSplit ==
    /\ whole \in FrameStrings(MaxFrames) \ {<<>>}
    /\ pending = whole
    /\ ParseIdle
    /\ PairIdle
    /\ codecChecksSync \in BOOLEAN
    /\ codecChecksLength \in BOOLEAN
    /\ TraceIdle
    /\ LoopIdle

NextSplit == \E k \in 1..(MaxFrames * (MinPacketBytes + 2)) : FeedChunk(k)

SpecSplit == InitSplit /\ [][NextSplit]_vars

\* ------------------------------------- one call of processBuffer

\* The texts a call is started on: two pieces, either of which may be empty.
LoopPieces ==
    { <<>>, Sync, Garbage, LongGarbage, FrameA, FrameB, FrameC,
      BadChecksumFrame, ShortLengthFrame, ZeroLengthFrame, LengthlessFrame,
      SliceTo(FrameC, 6) }

LoopBuffers == {a \o b : a \in LoopPieces, b \in LoopPieces}

LoopVars == <<parseVars, pairVars, splitVars, codecVars, traceVars>>

InitLoop ==
    /\ \E hexString \in LoopBuffers, direction \in Directions :
           loop = [pc |-> "loop", hexString |-> hexString, direction |-> direction,
                   timestamp |-> 1, passes |-> 0, start |-> hexString,
                   prev |-> <<>>, first |-> NoPacket, redecoded |-> FALSE,
                   acc |-> [results |-> <<>>, buffer |-> hexString, threw |-> FALSE]]
    /\ codecChecksSync \in BOOLEAN
    /\ codecChecksLength \in BOOLEAN
    /\ ParseIdle
    /\ PairIdle
    /\ SplitIdle
    /\ TraceIdle

\* One pass of the do-while loop of the call.
LoopPass ==
    /\ loop.pc = "loop"
    /\ loop.passes < MaxPasses
    /\ LET it == Iteration(loop.hexString, loop.direction, loop.timestamp, loop.acc)
       IN loop' = [loop EXCEPT !.pc = IF it.acc.threw THEN "threw"
                                      ELSE IF it.again THEN "loop" ELSE "returned",
                               !.hexString = it.hexString,
                               !.acc = it.acc,
                               !.passes = @ + 1,
                               !.prev = loop.hexString,
                               !.first = it.first,
                               !.redecoded = it.redecoded]
    /\ UNCHANGED LoopVars

NextLoop == LoopPass

SpecLoop == InitLoop /\ [][NextLoop]_vars


\* =================================================== claims: pairPackets

PairDone == pairPc = "done"

PairedRequests == [k \in DOMAIN pairedPackets |-> pairedPackets[k].request]
PairedResponses == [k \in DOMAIN pairedPackets |-> pairedPackets[k].response]

\* How many entries of s carry the timestamp ts (the identity of an input packet).
CountOf(s, ts) == Cardinality({k \in DOMAIN s : s[k].timestamp = ts})

Occurrences(ts) ==
    CountOf(PairedRequests, ts) + CountOf(PairedResponses, ts)
        + CountOf(unpairedPackets, ts) + CountOf(singularPackets, ts)

\* C1 (completeness): every input packet occurs exactly once over the requests
\* and responses of paired, unpaired and singular.
C1_Completeness ==
    PairDone => \A i \in DOMAIN parsedPackets : Occurrences(i) = 1

\* C2 (pairing correctness): every emitted pair is the rendering of two input
\* packets with equal sequenceID and opposite directions, the request with
\* commandType 0 and ackType # 0, the response with commandType 1.
C2_PairingCorrect ==
    PairDone =>
        \A k \in DOMAIN pairedPackets :
            LET rq == pairedPackets[k].request
                rs == pairedPackets[k].response
            IN /\ rq.timestamp \in DOMAIN parsedPackets
               /\ rs.timestamp \in DOMAIN parsedPackets
               /\ rq = PacketData(parsedPackets[rq.timestamp])
               /\ rs = PacketData(parsedPackets[rs.timestamp])
               /\ parsedPackets[rq.timestamp].packet.sequenceID
                      = parsedPackets[rs.timestamp].packet.sequenceID
               /\ rq.direction # rs.direction
               /\ parsedPackets[rq.timestamp].packet.commandType = 0
               /\ parsedPackets[rq.timestamp].packet.ackType # 0
               /\ parsedPackets[rs.timestamp].packet.commandType = 1

\* Two pairs were emitted, from an input that also holds a response of the
\* request's own direction and sequenceID.
C2_Witness ==
    /\ PairDone
    /\ Len(pairedPackets) = 2
    /\ \E i, j \in DOMAIN parsedPackets :
           /\ IsRequest(parsedPackets[i]) /\ IsAck(parsedPackets[j])
           /\ parsedPackets[i].packet.sequenceID = parsedPackets[j].packet.sequenceID
           /\ parsedPackets[i].direction = parsedPackets[j].direction

\* C3 (singular exclusivity): no packet with ackType 0 is a request or a
\* response of a pair or an entry of unpaired.
C3_SingularExclusive ==
    PairDone =>
        \A i \in DOMAIN parsedPackets :
            parsedPackets[i].packet.ackType = 0 =>
                /\ CountOf(PairedRequests, i) = 0
                /\ CountOf(PairedResponses, i) = 0
                /\ CountOf(unpairedPackets, i) = 0

\* C4: no candidate response is the response of more than one pair.
C4_ResponseMatchedOnce ==
    PairDone =>
        \A i \in DOMAIN parsedPackets :
            IsAck(parsedPackets[i]) => CountOf(PairedResponses, i) <= 1

\* C5: every candidate response that is the response of no pair appears in
\* unpaired.
C5_LeftoverResponsesReported ==
    PairDone =>
        \A i \in DOMAIN parsedPackets :
            (IsAck(parsedPackets[i]) /\ CountOf(PairedResponses, i) = 0)
                => CountOf(unpairedPackets, i) >= 1

\* C6: a candidate request that found no response is in unpaired exactly once.
C6_UnmatchedRequestOnce ==
    PairDone =>
        \A i \in DOMAIN parsedPackets :
            (IsRequest(parsedPackets[i]) /\ CountOf(PairedRequests, i) = 0)
                => CountOf(unpairedPackets, i) = 1

\* The candidate responses still unmatched when the k-th pair is made: those
\* that are the response of no earlier pair.
UnmatchedBefore(k) ==
    {i \in DOMAIN parsedPackets :
        /\ IsAck(parsedPackets[i])
        /\ \A j \in 1..(k - 1) : pairedPackets[j].response.timestamp # i}

\* C7 (tie-break): each pair holds the earliest still-unmatched candidate
\* response with the request's sequenceID and the opposite direction.
C7_EarliestUnmatchedWins ==
    PairDone =>
        \A k \in DOMAIN pairedPackets :
            LET rq == parsedPackets[pairedPackets[k].request.timestamp]
                eligible == {i \in UnmatchedBefore(k) : Matches(parsedPackets[i], rq)}
            IN /\ eligible # {}
               /\ pairedPackets[k].response.timestamp = Min(eligible)

\* C8: singular is exactly the input packets with ackType 0, in input order.
C8_SingularExact ==
    PairDone =>
        /\ \A k \in DOMAIN singularPackets :
               /\ singularPackets[k].timestamp \in DOMAIN parsedPackets
               /\ parsedPackets[singularPackets[k].timestamp].packet.ackType = 0
               /\ singularPackets[k] = PacketData(parsedPackets[singularPackets[k].timestamp])
        /\ \A k \in 1..(Len(singularPackets) - 1) :
               singularPackets[k].timestamp < singularPackets[k + 1].timestamp
        /\ \A i \in DOMAIN parsedPackets :
               parsedPackets[i].packet.ackType = 0 => CountOf(singularPackets, i) = 1

\* singular holds a response and a command, and the input also holds a packet
\* that expects a reply.
C8_Witness ==
    /\ PairDone
    /\ \E k, l \in DOMAIN singularPackets :
           /\ k < l
           /\ parsedPackets[singularPackets[k].timestamp].packet.commandType = 1
           /\ parsedPackets[singularPackets[l].timestamp].packet.commandType = 0
    /\ \E i \in DOMAIN parsedPackets : parsedPackets[i].packet.ackType # 0

\* ============================================ claims: reassembly

SyncedOrEmpty(buffer) == buffer = <<>> \/ StartsWith(buffer, Sync)

\* C9 (DirectionBuffer invariant): each of the two buffers is empty or begins
\* with the hex text of the synchronization byte, in every state of a run.
C9_BufferStartsWithSync ==
    SyncedOrEmpty(rxCurrentHexString) /\ SyncedOrEmpty(txCurrentHexString)

\* A chunk was skipped, an invalid packet was pushed, and the inbound buffer
\* holds text on which the decoder fails while the outbound one holds more.
C9_Witness ==
    /\ skipped >= 1
    /\ \E k \in DOMAIN results : ~IsValid(results[k].packet)
    /\ rxCurrentHexString # <<>>
    /\ DecodeFails(rxCurrentHexString)
    /\ txCurrentHexString # <<>>

\* The packets of a result sequence, without the chunk they arrived with.
PacketsOf(res) == [k \in DOMAIN res |-> res[k].packet]

\* The packets decoded when the whole string arrives as one inbound chunk.
SingleChunkPackets ==
    PacketsOf(OnData(IdleState, [marker |-> "0", timestamp |-> 1, token |-> TokenIN,
                                 payload |-> whole]).results)

\* C10 (reassembly idempotence): once every byte of a string of complete
\* frames has been fed, in whatever chunks, the packets decoded are those of
\* feeding the string as a single chunk.
C10_ChunkingIrrelevant ==
    (whole # <<>> /\ pending = <<>>) => PacketsOf(results) = SingleChunkPackets

\* -------------------------------------------- claims on processBuffer

LoopDone == loop.pc # "loop"

\* The packets a finished call appended.
LoopPackets == [k \in DOMAIN loop.acc.results |-> loop.acc.results[k].packet]

\* C11: a call started on a valid frame followed by garbage that is shorter
\* than a frame and does not start with the sync byte appends exactly the
\* packet of the frame, nothing for the garbage, leaves the buffer empty and
\* raises no error, whether the decoder throws on the garbage or returns an
\* invalid packet for it.
C11_TruncationTolerance ==
    \A frame \in Frames, garbage \in {Garbage, LongGarbage} :
        (LoopDone /\ loop.start = frame \o garbage) =>
            /\ loop.pc = "returned"
            /\ LoopPackets = <<FromHexString(frame)>>
            /\ loop.acc.buffer = <<>>
\* ----------------------------------------- claims on the "data" handler

\* The record handled last reached the buffers: it is a payload record that
\* names a direction.
CallDirection == RowDirection(call.row)

BufferOf(st, direction) == IF direction = "RX" THEN st.rx ELSE st.tx

BufferBefore == BufferOf(call.before, CallDirection)
BufferAfter == BufferOf(StateNow, CallDirection)

RECURSIVE Concat(_)
Concat(fs) == IF fs = <<>> THEN <<>> ELSE Head(fs) \o Concat(Tail(fs))

FrameSeqs(n) == UNION {[1..k -> Frames] : k \in 1..n}

\* The results a chunk of the frames fs adds.
RowsOfFrames(fs) ==
    [k \in 1..Len(fs) |-> [timestamp |-> call.row.timestamp,
                           direction |-> CallDirection,
                           packet |-> FromHexString(fs[k])]]

\* C12: a chunk of k >= 1 complete valid frames that arrives on an empty
\* buffer appends exactly k packets, those of the frames in their order, each
\* tagged with the timestamp and direction of the chunk, and leaves the
\* buffer empty.
C12_BackToBackFrames ==
    \A fs \in FrameSeqs(MaxFrames) :
        (CallDirection # "none" /\ call.row.payload = Concat(fs) /\ BufferBefore = <<>>) =>
            /\ phase # "aborted"
            /\ results = call.before.results \o RowsOfFrames(fs)
            /\ \A k \in 1..Len(fs) : IsValid(results[Len(call.before.results) + k].packet)
            /\ BufferAfter = <<>>

C12_Witness ==
    /\ call.row.payload = FrameC \o FrameB
    /\ BufferBefore = <<>>
    /\ PacketsOf(results) = <<FromHexString(FrameC), FromHexString(FrameB)>>
\* The chunk of the record handled last, and the text processBuffer was
\* called on for it.
CallChunk == StripWhitespace(call.row.payload)
CallBuffer == BufferBefore \o SyncTrim(BufferBefore, CallChunk)

\* The record handled last led to a call of processBuffer.
CallReached ==
    /\ CallDirection # "none"
    /\ CallChunk # <<>>
    /\ ~(BufferBefore = <<>> /\ IndexOf(CallChunk, Sync) = -1)
    /\ CallBuffer # <<>>

\* The results the call appended.
CallAppended == SubSeq(results, Len(call.before.results) + 1, Len(results))

\* C13: when the decoder throws on the first decode of a call, no packet is
\* appended and the buffer afterwards is the buffer before followed by the
\* sync-trimmed chunk.
C13_DecodeFailureRetainsBuffer ==
    (CallReached /\ DecodeFails(CallBuffer)) =>
        /\ results = call.before.results
        /\ BufferAfter = CallBuffer
        /\ phase # "aborted"

C13_Witness ==
    /\ CallReached
    /\ DecodeFails(CallBuffer)
    /\ BufferBefore # <<>>
    /\ BufferAfter = BufferBefore \o CallChunk
    /\ BufferOf(StateNow, IF CallDirection = "RX" THEN "TX" ELSE "RX") # <<>>
\* C14: a failure of the decoder never ends the run, whether it is a failure
\* of the first decode or of the decode of the truncated first `length`
\* bytes: no handler is left by an exception.
C14_DecoderFailureNotFatal == phase # "aborted"
\* A record was handled.
CallMade == call.row.marker # "none"

\* The record handled last is one of the skipped kinds: no payload record,
\* no direction, an empty payload, or no sync byte while the buffer is empty.
CallSkipped ==
    /\ CallMade
    /\ \/ call.row.marker # "0"
       \/ ~(Includes(call.row.token, TokenIN) \/ Includes(call.row.token, TokenOUT))
       \/ CallChunk = <<>>
       \/ (BufferBefore = <<>> /\ IndexOf(CallChunk, Sync) = -1)

SkippedChangesNothing ==
    CallSkipped =>
        /\ rxCurrentHexString = call.before.rx
        /\ txCurrentHexString = call.before.tx
        /\ results = call.before.results
        /\ processed = call.before.processed
        /\ skipped = call.before.skipped + 1

OneCounterPerRecord ==
    CallMade =>
        \/ processed = call.before.processed + 1 /\ skipped = call.before.skipped
        \/ processed = call.before.processed /\ skipped = call.before.skipped + 1

\* C15: a skipped record leaves both buffers and the results as they were
\* and increments only the skipped counter, and every record handled
\* increments exactly one of the two counters.
C15_SkippedChangeNothing == SkippedChangesNothing /\ OneCounterPerRecord
\* C16: an invalid packet ends the call of processBuffer: the loop goes on
\* only after a valid packet, so every packet a call appended before its
\* last one is valid.
C16_InvalidPacketEndsCall ==
    /\ \A k \in 1..(Len(LoopPackets) - 1) : IsValid(LoopPackets[k])
    /\ (loop.pc = "loop" => \A k \in DOMAIN LoopPackets : IsValid(LoopPackets[k]))

C16_Witness ==
    /\ loop.pc = "returned"
    /\ loop.passes = 2
    /\ Len(LoopPackets) = 2
    /\ IsValid(LoopPackets[1])
    /\ ~IsValid(LoopPackets[2])
\* The last pass decoded a packet from the text it met, and it is invalid.
FirstDecodeInvalid == loop.first # NoPacket /\ ~IsValid(loop.first)

\* The declared length is smaller than the number of bytes the pass met.
LengthBelowAvailable == loop.first.length < NumBytes(loop.prev)

RedecodedExactlyWhenShorter == FirstDecodeInvalid => (loop.redecoded <=> LengthBelowAvailable)

\* The packet the last pass accepted is the decode of the first `length`
\* bytes when the length is below the bytes available, else the first decode.
AcceptedAsClaimed ==
    (FirstDecodeInvalid /\ loop.pc # "threw") =>
        LoopPackets[Len(LoopPackets)] =
            IF LengthBelowAvailable
            THEN FromHexString(SliceTo(loop.prev, 2 * loop.first.length))
            ELSE loop.first

\* C17: after a first decode that returned an invalid packet, the second
\* decode, of the truncated text, is made exactly when the declared length in
\* bytes is smaller than the number of bytes in the buffer, and the packet
\* accepted is then the decode of the first `length` bytes; otherwise the
\* packet of the first decode is accepted as it is.
C17_RedecodeCondition == RedecodedExactlyWhenShorter /\ AcceptedAsClaimed
AllPayloadsEven == \A payload \in Payloads : Len(StripWhitespace(payload)) % 2 = 0

\* C18: when every chunk payload has an even number of hex characters once
\* its whitespace is removed, the text handed to processBuffer has an even
\* number of characters: the sync search drops whole bytes only.
C18_BuffersByteAligned ==
    (AllPayloadsEven /\ CallReached) => Len(CallBuffer) % 2 = 0

OtherDirection(direction) == IF direction = "RX" THEN "TX" ELSE "RX"

\* The results of one direction, in arrival order.
ResultsOf(direction) == SelectSeq(results, LAMBDA r : r.direction = direction)

OtherBufferUntouched ==
    CallDirection # "none" =>
        BufferOf(StateNow, OtherDirection(CallDirection))
            = BufferOf(call.before, OtherDirection(CallDirection))

\* Once the whole trace was read, each direction has the packets of the run
\* over its own chunks alone.
SameAsAlone ==
    (phase # "reading" /\ solo.rows = MaxRows) =>
        \A direction \in Directions : ResultsOf(direction) = solo[direction].results

\* C19: a chunk of one direction never changes the buffer of the other, and
\* the packets of a direction are those of its own chunks alone, however the
\* chunks of the other direction are interleaved with them.
C19_DirectionsIndependent == OtherBufferUntouched /\ SameAsAlone
\* C20: a call of processBuffer makes finitely many passes through its loop,
\* whatever the buffer and whatever the decoder returns (a failure, a valid or
\* an invalid packet, of any declared length, 0 included): every pass after
\* which the loop goes on has shortened the text that is left.
C20_ExtractionTerminates ==
    (loop.pc = "loop" /\ loop.passes > 0) => Len(loop.hexString) < Len(loop.prev)
====
